---- MODULE Spec2Model ----
(***************************************************************************)
(* State machine of the task dashboard (stephhoneyy/raaa).                 *)
(*                                                                         *)
(* Full-page variant: src/src/pages/Index.tsx, component Tasks, live data  *)
(* path (USE_MOCK_DATA = false).  The React state hooks are the variables, *)
(* every event handler and every continuation of an awaited network call   *)
(* is one action.  A handler reads the state of the render it was created  *)
(* in; an awaited continuation keeps reading that render's values (its     *)
(* closure), while functional updates (setX(prev => ...)) read the state   *)
(* current when the continuation runs.                                     *)
(*                                                                         *)
(* Modal variant: src/src/components/TaskOverlayModal.tsx, component       *)
(* TaskOverlayModal, whose state is the record `modal`; its actions are    *)
(* named Modal_...                                                         *)
(***************************************************************************)
EXTENDS Integers, Sequences, FiniteSets, Bags, TLC

(***************************************************************************)
(* Bounds of the model.                                                    *)
(***************************************************************************)
\* Longest task list the backend returns.
MaxTasks == 2
\* Most generate requests in flight at the same time.
MaxPending == 2

(***************************************************************************)
(* JavaScript values.                                                      *)
(***************************************************************************)
\* A string value, an array value (named by a token) and undefined, tagged so
\* that `typeof x === "string"` and truthiness can be computed.
Str(s) == [kind |-> "string", val |-> s]
Arr(a) == [kind |-> "array", val |-> a]
Undefined == [kind |-> "undefined", val |-> ""]

\* JavaScript truthiness of such a value: undefined and "" are falsy, every
\* array (even an empty one) and every non-empty string is truthy.
Truthy(v) == ~(v.kind = "undefined" \/ (v.kind = "string" /\ v.val = ""))

\* a || b
OrElse(a, b) == IF Truthy(a) THEN a ELSE b

\* selectedTask === null
Null == [id |-> "null", title |-> "", type |-> "", prompt |-> ""]

\* patient === null
NoPatient == [id |-> "null", name |-> "", dateOfBirth |-> "", sessionId |-> ""]

(***************************************************************************)
(* Inputs: what the backend may answer and what the user may type.         *)
(***************************************************************************)
\* Raw tasks of GET /api/tasks (ApiTask: type, title, prompt), of one kind: the
\* tasks of a list then differ by their position only.
ApiTasks ==
  { [type |-> "send_email", title |-> "Email labs", prompt |-> "..."] }

\* Every list of at most MaxTasks raw tasks.
ApiLists == UNION { [1..n -> ApiTasks] : n \in 0..MaxTasks }

\* Answers of POST /api/tasks/generate (PreviewContent: type, content): a text
\* blob or a list of recommendation cards.
PreviewContents ==
  { [type |-> "Email Draft", content |-> Str("draft")],
    [type |-> "Recommendations", content |-> Arr("cards")] }

\* Answers of GET /api/patient (Patient: id, name, dateOfBirth, sessionId).
Patients ==
  { [id |-> "p-1", name |-> "Ada", dateOfBirth |-> "1990-01-01", sessionId |-> "s-1"] }

\* Texts the user may leave in the textarea (e.target.value), the empty text
\* included.
TypedTexts == {"", "edited"}

(***************************************************************************)
(* Map<string, GeneratedTask>: a function from its keys to their values.   *)
(* The insertion order, in which a Map is iterated, is not kept: values()  *)
(* lists the values in one fixed order of the keys.                        *)
(***************************************************************************)
\* map.has(k)
MapHas(m, k) == k \in DOMAIN m

\* map.get(k), for a key the map has
MapGet(m, k) == m[k]

\* new Map(m).set(k, v)
MapSet(m, k, v) == [ x \in DOMAIN m \cup {k} |-> IF x = k THEN v ELSE m[x] ]

\* the keys of the map
MapKeys(m) == DOMAIN m

\* The elements of a finite set, listed in one fixed order.
RECURSIVE SeqOf(_)
SeqOf(S) ==
  IF S = {} THEN << >>
  ELSE LET x == CHOOSE y \in S : TRUE IN << x >> \o SeqOf(S \ {x})

\* Array.from(map.values())
MapValues(m) == LET keys == SeqOf(DOMAIN m) IN [ i \in 1..Len(keys) |-> m[keys[i]] ]

\* new Map()
EmptyMap == << >>

(***************************************************************************)
(* State of the component TaskOverlayModal                                 *)
(* (src/src/components/TaskOverlayModal.tsx), held in one record: the prop *)
(* `open`, the state hooks under their names, and the fetchTasks calls     *)
(* awaiting their response, each with the selectedTask of the render that  *)
(* called it.  actionCalls and approveCalls are the handleActionClick and  *)
(* handleApprove calls awaiting their response, each with the state its    *)
(* render had.                                                             *)
(***************************************************************************)
\* selectedTask === null, in the modal (Task: id, title, type, completed)
ModalNull == [id |-> "null", title |-> "", type |-> "", completed |-> FALSE]

\* previewContent === null
NoPreview == [type |-> "null", content |-> Undefined]

\* The hooks' initial values; the modal starts closed.
ModalInit ==
  [ open |-> FALSE,
    tasks |-> << >>,
    selectedTask |-> ModalNull,
    currentAction |-> "null",
    previewContent |-> NoPreview,
    editedContent |-> "",
    isLoading |-> FALSE,
    isExecuting |-> FALSE,
    isFetchingTasks |-> FALSE,
    fetchTasksCalls |-> << >>,
    actionCalls |-> << >>,
    approveCalls |-> << >> ]

(***************************************************************************)
(* State of the component Tasks.                                           *)
(***************************************************************************)
VARIABLES
  tasks,               \* useState<Task[]>([])
  selectedTask,        \* useState<Task | null>(null)
  generatedTasks,      \* useState<Map<string, GeneratedTask>>(new Map())
  isGenerating,        \* useState(false)
  isExecutingAll,      \* useState(false)
  isFetchingTasks,     \* useState(false)
  patient,             \* useState<Patient | null>(null)
  showSuccessModal,    \* useState(false)
  executedTasksCount,  \* useState(0)
  mounted,             \* whether the mount effect has run
  fetchTasksCalls,     \* fetchTasks calls awaiting their response, with their closure
  fetchPatientCalls,   \* the number of fetchPatient calls awaiting their response
  generateCalls,       \* generateContentForTask calls awaiting their response: a bag of tasks
  executeCalls,        \* handleExecuteAll calls awaiting their response, with their closure
  generateRequested,   \* history: the ids generateContentForTask has been called for
  modal,               \* the component TaskOverlayModal: its prop, hooks and pending calls
  toasts,              \* the toast() calls of the latest step
  requests             \* the fetch() calls of the latest step

vars ==
  << tasks, selectedTask, generatedTasks, isGenerating, isExecutingAll,
     isFetchingTasks, patient, showSuccessModal, executedTasksCount, mounted,
     fetchTasksCalls, fetchPatientCalls, generateCalls, executeCalls,
     generateRequested, modal, toasts, requests >>

\* The state of the component Tasks.
pageVars ==
  << tasks, selectedTask, generatedTasks, isGenerating, isExecutingAll,
     isFetchingTasks, patient, showSuccessModal, executedTasksCount, mounted,
     fetchTasksCalls, fetchPatientCalls, generateCalls, executeCalls,
     generateRequested >>

\* The hooks' initial values; nothing has been requested yet.
Init ==
  /\ tasks = << >>
  /\ selectedTask = Null
  /\ generatedTasks = EmptyMap
  /\ isGenerating = FALSE
  /\ isExecutingAll = FALSE
  /\ isFetchingTasks = FALSE
  /\ patient = NoPatient
  /\ showSuccessModal = FALSE
  /\ executedTasksCount = 0
  /\ mounted = FALSE
  /\ fetchTasksCalls = << >>
  /\ fetchPatientCalls = 0
  /\ generateCalls = EmptyBag
  /\ executeCalls = << >>
  /\ generateRequested = {}
  /\ modal = ModalInit
  /\ toasts = << >>
  /\ requests = << >>

(***************************************************************************)
(* Toasts.                                                                 *)
(***************************************************************************)
ToastLoadFailed == [title |-> "Error", description |-> "Failed to load tasks. Please try again."]
ToastGenerateFailed == [title |-> "Error", description |-> "Failed to generate content. Please try again."]
ToastExecuteFailed == [title |-> "Error", description |-> "Failed to execute tasks. Please try again."]
ToastNoTasks == [title |-> "No tasks to execute", description |-> "Please approve at least one task before executing."]
ToastApproved == [title |-> "Task Approved", description |-> "Task has been approved and is ready for execution."]
ToastApprovalCancelled == [title |-> "Approval Cancelled", description |-> "Task approval has been cancelled."]

(***************************************************************************)
(* Values derived at render.                                               *)
(***************************************************************************)
\* const currentGenerated = selectedTask ? generatedTasks.get(selectedTask.id) : null
HasCurrentGenerated == selectedTask # Null /\ MapHas(generatedTasks, selectedTask.id)

\* Array.from(generatedTasks.values()).filter((t) => t.approved)
ApprovedOf(m) == SelectSeq(MapValues(m), LAMBDA t : t.approved)

\* approvedTasksCount
approvedTasksCount == Len(ApprovedOf(generatedTasks))

\* The tasks of the list, as a set.
TaskSet(ts) == { ts[i] : i \in 1..Len(ts) }

\* The ids of the tasks of the list.
TaskIds(ts) == { ts[i].id : i \in 1..Len(ts) }

(***************************************************************************)
(* Mount: useEffect(() => { fetchTasks(); ... }, []).                      *)
(***************************************************************************)
\* fetch(`${API_BASE}/api/tasks`, { method: "GET" })
FetchTasksRequest == [method |-> "GET", path |-> "/api/tasks", body |-> Undefined]

\* fetch(`${API_BASE}/api/patient`, { method: "GET" })
FetchPatientRequest == [method |-> "GET", path |-> "/api/patient", body |-> Undefined]

\* fetchTasks up to its await: the flag is set and the request leaves; the
\* continuation keeps the selectedTask of the render that called it.
fetchTasks ==
  /\ isFetchingTasks' = TRUE
  /\ fetchTasksCalls' = Append(fetchTasksCalls, [selectedTask |-> selectedTask])

\* fetchPatient up to its await: the request leaves.
fetchPatient ==
  /\ fetchPatientCalls' = fetchPatientCalls + 1

Mount ==
  /\ ~mounted
  /\ mounted' = TRUE
  /\ fetchTasks
  /\ fetchPatient
  /\ requests' = << FetchTasksRequest, FetchPatientRequest >>
  /\ toasts' = << >>
  /\ UNCHANGED << tasks, selectedTask, generatedTasks, isGenerating, isExecutingAll,
                  showSuccessModal, executedTasksCount, generateCalls, executeCalls,
                  generateRequested, patient, modal >>

\* The patient request is answered ok: setPatient(data).
fetchPatientOk(data) ==
  /\ fetchPatientCalls > 0
  /\ fetchPatientCalls' = fetchPatientCalls - 1
  /\ patient' = data
  /\ toasts' = << >>
  /\ requests' = << >>
  /\ UNCHANGED << tasks, selectedTask, generatedTasks, isGenerating, isExecutingAll,
                  isFetchingTasks, showSuccessModal, executedTasksCount, mounted,
                  fetchTasksCalls, generateCalls, executeCalls, generateRequested,
                  modal >>

\* The patient request is rejected or answered with a non-ok status: the catch
\* writes to the console and nothing else.
fetchPatientFail ==
  /\ fetchPatientCalls > 0
  /\ fetchPatientCalls' = fetchPatientCalls - 1
  /\ toasts' = << >>
  /\ requests' = << >>
  /\ UNCHANGED << tasks, selectedTask, generatedTasks, isGenerating, isExecutingAll,
                  isFetchingTasks, patient, showSuccessModal, executedTasksCount,
                  mounted, fetchTasksCalls, generateCalls, executeCalls,
                  generateRequested, modal >>

(***************************************************************************)
(* Content generation.                                                     *)
(***************************************************************************)
\* generateContentForTask up to its await: the flag is set and the request
\* for the task leaves.
generateContentForTask(task) ==
  /\ BagCardinality(generateCalls) < MaxPending
  /\ isGenerating' = TRUE
  /\ generateCalls' = generateCalls (+) SetToBag({task})
  /\ generateRequested' = generateRequested \cup {task.id}
  /\ requests' = << [ method |-> "POST", path |-> "/api/tasks/generate",
                      body |-> [taskType |-> task.type, taskDetails |-> task] ] >>

\* useEffect(..., [selectedTask]): runs after a render in which selectedTask
\* changed, and reads that render's selectedTask and generatedTasks.
SelectedTaskEffect(changed, sel, gen) ==
  IF changed /\ sel # Null /\ ~MapHas(gen, sel.id)
    THEN generateContentForTask(sel)
    ELSE requests' = << >> /\ UNCHANGED << isGenerating, generateCalls, generateRequested >>

\* Mutant of NewGeneratedTask: the edit buffer is seeded whatever the content is.
NewGeneratedTask_alwaysSeeded(task, data) ==
  [ taskId |-> task.id,
    content |-> data,
    editedContent |-> data.content,
    approved |-> FALSE ]

\* The record stored for a generate response `data` of `task`.
NewGeneratedTask(task, data) ==
  [ taskId |-> task.id,
    content |-> data,
    editedContent |-> IF data.content.kind = "string" THEN data.content ELSE Undefined,
    approved |-> FALSE ]

\* Mutant of generateOk: the record is set under the id of the task selected
\* when the response arrives, not under the id of the task it was generated for.
generateOk_underSelected(task, data) ==
  /\ BagIn(task, generateCalls)
  /\ generateCalls' = generateCalls (-) SetToBag({task})
  /\ generatedTasks' = MapSet(generatedTasks, selectedTask.id, NewGeneratedTask(task, data))
  /\ isGenerating' = FALSE
  /\ toasts' = << >>
  /\ requests' = << >>
  /\ UNCHANGED << tasks, selectedTask, isExecutingAll, isFetchingTasks, showSuccessModal,
                  executedTasksCount, mounted, fetchTasksCalls, executeCalls,
                  generateRequested, patient, fetchPatientCalls,
                  modal >>

\* Mutant of generateOk: the response of a task that is no longer the selected
\* one is dropped.
generateOk_droppingStale(task, data) ==
  /\ BagIn(task, generateCalls)
  /\ generateCalls' = generateCalls (-) SetToBag({task})
  /\ generatedTasks' =
       IF task = selectedTask
         THEN MapSet(generatedTasks, task.id, NewGeneratedTask(task, data))
         ELSE generatedTasks
  /\ isGenerating' = FALSE
  /\ toasts' = << >>
  /\ requests' = << >>
  /\ UNCHANGED << tasks, selectedTask, isExecutingAll, isFetchingTasks, showSuccessModal,
                  executedTasksCount, mounted, fetchTasksCalls, executeCalls,
                  generateRequested, patient, fetchPatientCalls,
                  modal >>

\* The response of a generate call arrives, ok: the record is set under the
\* task's id in the current map, and the flag is reset.
generateOk(task, data) ==
  /\ BagIn(task, generateCalls)
  /\ generateCalls' = generateCalls (-) SetToBag({task})
  /\ generatedTasks' = MapSet(generatedTasks, task.id, NewGeneratedTask(task, data))
  /\ isGenerating' = FALSE
  /\ toasts' = << >>
  /\ requests' = << >>
  /\ UNCHANGED << tasks, selectedTask, isExecutingAll, isFetchingTasks, showSuccessModal,
                  executedTasksCount, mounted, fetchTasksCalls, executeCalls,
                  generateRequested, patient, fetchPatientCalls,
                  modal >>

\* Mutant of generateFail: the failure stores a record with an empty text.
generateFail_storing(task) ==
  /\ BagIn(task, generateCalls)
  /\ generateCalls' = generateCalls (-) SetToBag({task})
  /\ generatedTasks' =
       MapSet(generatedTasks, task.id,
              NewGeneratedTask(task, [type |-> "Error", content |-> Str("")]))
  /\ toasts' = << ToastGenerateFailed >>
  /\ requests' = << >>
  /\ isGenerating' = FALSE
  /\ UNCHANGED << tasks, selectedTask, isExecutingAll, isFetchingTasks,
                  showSuccessModal, executedTasksCount, mounted, fetchTasksCalls,
                  executeCalls, generateRequested,
                  patient, fetchPatientCalls, modal >>

\* Mutant of generateFail: the failure sends the request again.
generateFail_retrying(task) ==
  /\ BagIn(task, generateCalls)
  /\ generateCalls' = generateCalls
  /\ toasts' = << ToastGenerateFailed >>
  /\ requests' = << [ method |-> "POST", path |-> "/api/tasks/generate",
                      body |-> [taskType |-> task.type, taskDetails |-> task] ] >>
  /\ isGenerating' = TRUE
  /\ UNCHANGED << tasks, selectedTask, generatedTasks, isExecutingAll, isFetchingTasks,
                  showSuccessModal, executedTasksCount, mounted, fetchTasksCalls,
                  executeCalls, generateRequested,
                  patient, fetchPatientCalls, modal >>

\* A generate call is rejected or answered with a non-ok status: catch, finally.
generateFail(task) ==
  /\ BagIn(task, generateCalls)
  /\ generateCalls' = generateCalls (-) SetToBag({task})
  /\ toasts' = << ToastGenerateFailed >>
  /\ requests' = << >>
  /\ isGenerating' = FALSE
  /\ UNCHANGED << tasks, selectedTask, generatedTasks, isExecutingAll, isFetchingTasks,
                  showSuccessModal, executedTasksCount, mounted, fetchTasksCalls,
                  executeCalls, generateRequested,
                  patient, fetchPatientCalls, modal >>

(***************************************************************************)
(* The task list.                                                          *)
(***************************************************************************)
\* `task-${idx + 1}`
TaskId(i) == "task-" \o ToString(i)

\* Mutant of Normalise: the ids are numbered from the index, not from index + 1.
Normalise_zeroBased(apiData) ==
  [ i \in 1..Len(apiData) |->
      [ id |-> TaskId(i - 1), title |-> apiData[i].title, type |-> apiData[i].type,
        prompt |-> apiData[i].prompt ] ]

\* apiData.map((t, idx) => ({ id, title, type, prompt }))
Normalise(apiData) ==
  [ i \in 1..Len(apiData) |->
      [ id |-> TaskId(i), title |-> apiData[i].title, type |-> apiData[i].type,
        prompt |-> apiData[i].prompt ] ]

\* The task list arrives, ok: it replaces the list; the first task becomes
\* selected if the calling render had none selected, which starts the
\* generation for it.
fetchTasksOk(apiData) ==
  /\ fetchTasksCalls # << >>
  /\ LET call == Head(fetchTasksCalls)
         normalised == Normalise(apiData)
     IN /\ fetchTasksCalls' = Tail(fetchTasksCalls)
        /\ tasks' = normalised
        /\ selectedTask' = IF Len(normalised) > 0 /\ call.selectedTask = Null
                             THEN normalised[1]
                             ELSE selectedTask
        /\ SelectedTaskEffect(selectedTask' # selectedTask, selectedTask', generatedTasks)
  /\ isFetchingTasks' = FALSE
  /\ toasts' = << >>
  /\ UNCHANGED << generatedTasks, isExecutingAll, showSuccessModal, executedTasksCount,
                  mounted, executeCalls, patient, fetchPatientCalls,
                  modal >>

\* The task list request is rejected or answered with a non-ok status.
fetchTasksFail ==
  /\ fetchTasksCalls # << >>
  /\ fetchTasksCalls' = Tail(fetchTasksCalls)
  /\ toasts' = << ToastLoadFailed >>
  /\ requests' = << >>
  /\ isFetchingTasks' = FALSE
  /\ UNCHANGED << tasks, selectedTask, generatedTasks, isGenerating, isExecutingAll,
                  showSuccessModal, executedTasksCount, mounted, generateCalls,
                  executeCalls, generateRequested,
                  patient, fetchPatientCalls, modal >>

\* A click on a task of the list: onClick={() => setSelectedTask(task)}.  The
\* list is rendered when no fetch is running.  Setting the task that is already
\* selected changes nothing and runs no effect.
SelectTask(task) ==
  /\ ~isFetchingTasks
  /\ task \in TaskSet(tasks)
  /\ selectedTask' = task
  /\ SelectedTaskEffect(task # selectedTask, task, generatedTasks)
  /\ toasts' = << >>
  /\ UNCHANGED << tasks, generatedTasks, isExecutingAll, isFetchingTasks,
                  showSuccessModal, executedTasksCount, mounted, fetchTasksCalls,
                  executeCalls, patient, fetchPatientCalls, modal >>

(***************************************************************************)
(* Approval and editing.                                                   *)
(***************************************************************************)
\* Mutant of ApprovalToggled: the record is approved whatever it was.
ApprovalToggled_approving(prev, id) ==
  MapSet(prev, id, [MapGet(prev, id) EXCEPT !.approved = TRUE])

\* new Map(prev).set(selectedTask.id, { ...currentTask, approved: !currentTask.approved }),
\* for an id the map has
ApprovalToggled(prev, id) ==
  MapSet(prev, id, [MapGet(prev, id) EXCEPT !.approved = ~MapGet(prev, id).approved])

\* handleApprove: flips the approval of the selected task's record.
handleApprove ==
  /\ IF selectedTask = Null \/ ~MapHas(generatedTasks, selectedTask.id)
       THEN generatedTasks' = generatedTasks /\ toasts' = << >>
       ELSE LET currentTask == MapGet(generatedTasks, selectedTask.id)
                newApprovedState == ~currentTask.approved
            IN /\ generatedTasks' = ApprovalToggled(generatedTasks, selectedTask.id)
               /\ toasts' = << IF newApprovedState THEN ToastApproved
                                                   ELSE ToastApprovalCancelled >>
  /\ requests' = << >>
  /\ UNCHANGED << tasks, selectedTask, isGenerating, isExecutingAll, isFetchingTasks,
                  showSuccessModal, executedTasksCount, mounted, fetchTasksCalls,
                  generateCalls, executeCalls, generateRequested,
                  patient, fetchPatientCalls, modal >>

\* The Approve button is rendered when the selected task has a record.
ApproveClick ==
  /\ HasCurrentGenerated
  /\ handleApprove

\* Mutant of handleContentEdit: the typed text also overwrites the original body.
handleContentEdit_overwritingBody(taskId, newContent) ==
  /\ generatedTasks' =
       IF MapHas(generatedTasks, taskId)
         THEN MapSet(generatedTasks, taskId,
                     [MapGet(generatedTasks, taskId) EXCEPT
                        !.editedContent = Str(newContent),
                        !.content.content = Str(newContent)])
         ELSE generatedTasks
  /\ toasts' = << >>
  /\ requests' = << >>
  /\ UNCHANGED << tasks, selectedTask, isGenerating, isExecutingAll, isFetchingTasks,
                  showSuccessModal, executedTasksCount, mounted, fetchTasksCalls,
                  generateCalls, executeCalls, generateRequested,
                  patient, fetchPatientCalls, modal >>

\* Mutant of handleContentEdit: an edit for an id without a record creates one.
handleContentEdit_creating(taskId, newContent) ==
  /\ generatedTasks' =
       IF MapHas(generatedTasks, taskId)
         THEN MapSet(generatedTasks, taskId,
                     [MapGet(generatedTasks, taskId) EXCEPT !.editedContent = Str(newContent)])
         ELSE MapSet(generatedTasks, taskId,
                     [ taskId |-> taskId,
                       content |-> [type |-> "", content |-> Str(newContent)],
                       editedContent |-> Str(newContent),
                       approved |-> FALSE ])
  /\ toasts' = << >>
  /\ requests' = << >>
  /\ UNCHANGED << tasks, selectedTask, isGenerating, isExecutingAll, isFetchingTasks,
                  showSuccessModal, executedTasksCount, mounted, fetchTasksCalls,
                  generateCalls, executeCalls, generateRequested,
                  patient, fetchPatientCalls, modal >>

\* handleContentEdit: overwrites the edit buffer of an existing record.
handleContentEdit(taskId, newContent) ==
  /\ generatedTasks' =
       IF MapHas(generatedTasks, taskId)
         THEN MapSet(generatedTasks, taskId,
                     [MapGet(generatedTasks, taskId) EXCEPT !.editedContent = Str(newContent)])
         ELSE generatedTasks
  /\ toasts' = << >>
  /\ requests' = << >>
  /\ UNCHANGED << tasks, selectedTask, isGenerating, isExecutingAll, isFetchingTasks,
                  showSuccessModal, executedTasksCount, mounted, fetchTasksCalls,
                  generateCalls, executeCalls, generateRequested,
                  patient, fetchPatientCalls, modal >>

\* value={currentGenerated.editedContent || ""}
TextareaValue(genTask) == OrElse(genTask.editedContent, Str("")).val

\* The textarea is rendered when nothing is generating and the selected task's
\* record holds a text; typing changes its value.
TextareaChange(newContent) ==
  /\ ~isGenerating
  /\ HasCurrentGenerated
  /\ MapGet(generatedTasks, selectedTask.id).content.content.kind = "string"
  /\ newContent # TextareaValue(MapGet(generatedTasks, selectedTask.id))
  /\ handleContentEdit(selectedTask.id, newContent)

(***************************************************************************)
(* Batch execution.                                                        *)
(***************************************************************************)
\* Mutant of TasksToExecute: the approval filter is dropped.
TasksToExecute_unfiltered(gen) == MapValues(gen)

\* const tasksToExecute = Array.from(generatedTasks.values()).filter((t) => t.approved)
TasksToExecute(gen) == ApprovedOf(gen)

\* One entry of tasksPayload: { taskType: task?.type, content: editedContent || content.content }
PayloadEntry(genTask, ts) ==
  [ taskType |-> IF \E i \in 1..Len(ts) : ts[i].id = genTask.taskId
                   THEN Str(ts[CHOOSE i \in 1..Len(ts) : ts[i].id = genTask.taskId].type)
                   ELSE Undefined,
    content |-> OrElse(genTask.editedContent, genTask.content.content) ]

\* tasksToExecute.map(...)
TasksPayload(tasksToExecute, ts) ==
  [ i \in 1..Len(tasksToExecute) |-> PayloadEntry(tasksToExecute[i], ts) ]

\* The taskIds of a list of records.
TaskIdsOf(genTasks) == [ i \in 1..Len(genTasks) |-> genTasks[i].taskId ]

\* fetch(`${API_BASE}/api/tasks/execute-batch`, { method: "POST", body: { tasks, executedAt } });
\* the timestamp is left out.
ExecuteBatchRequest(tasksPayload) ==
  [ method |-> "POST", path |-> "/api/tasks/execute-batch", body |-> [tasks |-> tasksPayload] ]

\* Mutant of handleExecuteAll: the check for an empty selection is missing, so
\* an empty batch is sent.
handleExecuteAll_unchecked ==
  LET tasksToExecute == TasksToExecute(generatedTasks)
  IN /\ isExecutingAll' = TRUE
     /\ executeCalls' =
          Append(executeCalls,
                 [ generatedTasks |-> MapKeys(generatedTasks),
                   tasksToExecute |-> TaskIdsOf(tasksToExecute) ])
     /\ requests' = << ExecuteBatchRequest(TasksPayload(tasksToExecute, tasks)) >>
     /\ toasts' = << >>
     /\ UNCHANGED << tasks, selectedTask, generatedTasks, isGenerating, isFetchingTasks,
                     showSuccessModal, executedTasksCount, mounted, fetchTasksCalls,
                     generateCalls, generateRequested,
                     patient, fetchPatientCalls, modal >>

\* handleExecuteAll up to its await: with nothing approved a toast and nothing
\* else; otherwise the flag is set and the batch request leaves.  Of the calling
\* render's generatedTasks and tasksToExecute the continuation reads
\* generatedTasks.has and tasksToExecute.length: the call keeps the keys of the
\* one and the taskIds of the other.
handleExecuteAll ==
  LET tasksToExecute == TasksToExecute(generatedTasks)
  IN /\ IF Len(tasksToExecute) = 0
          THEN /\ toasts' = << ToastNoTasks >>
               /\ requests' = << >>
               /\ UNCHANGED << isExecutingAll, executeCalls >>
          ELSE /\ isExecutingAll' = TRUE
               /\ executeCalls' =
                    Append(executeCalls,
                           [ generatedTasks |-> MapKeys(generatedTasks),
                             tasksToExecute |-> TaskIdsOf(tasksToExecute) ])
               /\ requests' = << ExecuteBatchRequest(TasksPayload(tasksToExecute, tasks)) >>
               /\ toasts' = << >>
     /\ UNCHANGED << tasks, selectedTask, generatedTasks, isGenerating, isFetchingTasks,
                     showSuccessModal, executedTasksCount, mounted, fetchTasksCalls,
                     generateCalls, generateRequested,
                     patient, fetchPatientCalls, modal >>

\* Mutant of ExecuteAllDisabled: the button stays enabled while a batch is in
\* flight.
ExecuteAllDisabled_ignoringFlag == approvedTasksCount = 0

\* disabled={isExecutingAll || approvedTasksCount === 0}
ExecuteAllDisabled == isExecutingAll \/ approvedTasksCount = 0

\* A click on the enabled Execute All button.
ExecuteAllClick ==
  /\ ~ExecuteAllDisabled
  /\ handleExecuteAll

\* setTasks((prev) => prev.filter((task) => !generatedTasks.has(task.id))),
\* `gen` being the keys of the calling render's generatedTasks
TasksAfterExecute(prev, gen) == SelectSeq(prev, LAMBDA task : task.id \notin gen)

\* Mutant of GeneratedAfterExecute: the map is left as it is.
GeneratedAfterExecute_kept(prev) == prev

\* setGeneratedTasks(new Map())
GeneratedAfterExecute(prev) == EmptyMap

\* The batch request is answered ok.
executeOk ==
  /\ executeCalls # << >>
  /\ LET call == Head(executeCalls)
     IN /\ executeCalls' = Tail(executeCalls)
        /\ executedTasksCount' = Len(call.tasksToExecute)
        /\ tasks' = TasksAfterExecute(tasks, call.generatedTasks)
        /\ generatedTasks' = GeneratedAfterExecute(generatedTasks)
        /\ showSuccessModal' = TRUE
  /\ isExecutingAll' = FALSE
  /\ toasts' = << >>
  /\ requests' = << >>
  /\ UNCHANGED << selectedTask, isGenerating, isFetchingTasks, mounted, fetchTasksCalls,
                  generateCalls, generateRequested,
                  patient, fetchPatientCalls, modal >>

\* Mutant of executeFail: the failure is handled like the success, except for
\* the dialog and the count.
executeFail_clearing ==
  /\ executeCalls # << >>
  /\ executeCalls' = Tail(executeCalls)
  /\ tasks' = TasksAfterExecute(tasks, Head(executeCalls).generatedTasks)
  /\ generatedTasks' = EmptyMap
  /\ toasts' = << ToastExecuteFailed >>
  /\ requests' = << >>
  /\ isExecutingAll' = FALSE
  /\ UNCHANGED << selectedTask, isGenerating, isFetchingTasks, showSuccessModal,
                  executedTasksCount, mounted, fetchTasksCalls, generateCalls,
                  generateRequested, patient, fetchPatientCalls,
                  modal >>

\* The batch request is rejected or answered with a non-ok status.
executeFail ==
  /\ executeCalls # << >>
  /\ executeCalls' = Tail(executeCalls)
  /\ toasts' = << ToastExecuteFailed >>
  /\ requests' = << >>
  /\ isExecutingAll' = FALSE
  /\ UNCHANGED << tasks, selectedTask, generatedTasks, isGenerating, isFetchingTasks,
                  showSuccessModal, executedTasksCount, mounted, fetchTasksCalls,
                  generateCalls, generateRequested,
                  patient, fetchPatientCalls, modal >>

\* The success dialog is closed: onOpenChange / Continue.
CloseSuccessModal ==
  /\ showSuccessModal
  /\ showSuccessModal' = FALSE
  /\ toasts' = << >>
  /\ requests' = << >>
  /\ UNCHANGED << tasks, selectedTask, generatedTasks, isGenerating, isExecutingAll,
                  isFetchingTasks, executedTasksCount, mounted, fetchTasksCalls,
                  generateCalls, executeCalls, generateRequested,
                  patient, fetchPatientCalls, modal >>

(***************************************************************************)
(* The specification: the component driven through its rendered controls   *)
(* and the answers of the backend.                                         *)
(***************************************************************************)
Next ==
  \/ Mount
  \/ \E apiData \in ApiLists : fetchTasksOk(apiData)
  \/ fetchTasksFail
  \/ \E task \in TaskSet(tasks) : SelectTask(task)
  \/ \E task \in BagToSet(generateCalls), data \in PreviewContents : generateOk(task, data)
  \/ \E task \in BagToSet(generateCalls) : generateFail(task)
  \/ ApproveClick
  \/ \E newContent \in TypedTexts : TextareaChange(newContent)
  \/ ExecuteAllClick
  \/ executeOk
  \/ executeFail
  \/ CloseSuccessModal

Spec == Init /\ [][Next]_vars

(***************************************************************************)
(* The component with the answers to the patient request.  They write      *)
(* `patient`, which no handler reads, and nothing else; Spec leaves the    *)
(* patient request unanswered.                                             *)
(***************************************************************************)
NextPatient ==
  \/ Next
  \/ \E data \in Patients : fetchPatientOk(data)
  \/ fetchPatientFail

SpecPatient == Init /\ [][NextPatient]_vars

(***************************************************************************)
(* The handlers called directly: handleExecuteAll also runs when its       *)
(* button is disabled because nothing is approved (a caller other than the *)
(* rendered button), which is the only way into its first branch.  In the  *)
(* same way handleApprove and handleContentEdit run for a task without a   *)
(* record, for which their controls are not rendered.                      *)
(***************************************************************************)
ExecuteAllWithoutApproved ==
  /\ approvedTasksCount = 0
  /\ handleExecuteAll

\* handleApprove with no task selected or none that has a record.
ApproveWithoutRecord ==
  /\ ~HasCurrentGenerated
  /\ handleApprove

\* The ids a caller may pass: those the task list can hold.
KnownTaskIds == { TaskId(i) : i \in 1..MaxTasks }

\* handleContentEdit for an id that has no record.
ContentEditWithoutRecord ==
  \E taskId \in KnownTaskIds, newContent \in TypedTexts :
    /\ ~MapHas(generatedTasks, taskId)
    /\ handleContentEdit(taskId, newContent)

NextDirect ==
  \/ Next
  \/ ExecuteAllWithoutApproved
  \/ ApproveWithoutRecord
  \/ ContentEditWithoutRecord

SpecDirect == Init /\ [][NextDirect]_vars

(***************************************************************************)
(* The task list fed with raw tasks that differ in every field: mount,     *)
(* the answers to the list request, selection and generation.              *)
(***************************************************************************)
\* Raw tasks of GET /api/tasks of two kinds.
ApiTasksWide ==
  ApiTasks \cup
    { [type |-> "schedule_appointment", title |-> "Book follow-up", prompt |-> "book"] }

\* Every list of at most MaxTasks of them.
ApiListsWide == UNION { [1..n -> ApiTasksWide] : n \in 0..MaxTasks }

NextFetch ==
  \/ Mount
  \/ \E apiData \in ApiListsWide : fetchTasksOk(apiData)
  \/ fetchTasksFail
  \/ \E task \in TaskSet(tasks) : SelectTask(task)
  \/ \E task \in BagToSet(generateCalls), data \in PreviewContents : generateOk(task, data)
  \/ \E task \in BagToSet(generateCalls) : generateFail(task)

SpecFetch == Init /\ [][NextFetch]_vars

(***************************************************************************)
(* The modal's task list: the prop `open`, fetchTasks and the task list's  *)
(* buttons.  fetchTasks is modelled by its branch for the backend; its     *)
(* branch for USE_MOCK_DATA is the case in which the list is MOCK_TASKS    *)
(* and no call fails.  The modal stays mounted while it is closed: it      *)
(* renders nothing, keeps its state, and its pending calls still answer.   *)
(***************************************************************************)
\* The tasks the backend may list for the modal; they carry their ids.
ModalTask(i) ==
  [id |-> TaskId(i), title |-> "Follow-up notes", type |-> "template", completed |-> FALSE]

ModalTaskPool == { ModalTask(i) : i \in 1..MaxTasks }

\* Every list of at most MaxTasks of them that lists no task twice.
ModalApiLists ==
  { data \in UNION { [1..n -> ModalTaskPool] : n \in 0..MaxTasks } :
      \A i, j \in 1..Len(data) : data[i] = data[j] => i = j }

\* The sequence without its i-th element.
RemoveAt(s, i) == SubSeq(s, 1, i - 1) \o SubSeq(s, i + 1, Len(s))

\* fetchTasks up to its await, as an update of the modal's state: the flag is
\* set and the call keeps the selectedTask of the render that called it.
Modal_fetchTasks(m) ==
  [ m EXCEPT !.isFetchingTasks = TRUE,
             !.fetchTasksCalls = Append(@, [selectedTask |-> m.selectedTask]) ]

\* The parent opens the modal: useEffect(() => { if (open) fetchTasks() }, [open]).
Modal_Open ==
  /\ ~modal.open
  /\ Len(modal.fetchTasksCalls) < MaxPending
  /\ modal' = Modal_fetchTasks([modal EXCEPT !.open = TRUE])
  /\ requests' = << FetchTasksRequest >>
  /\ toasts' = << >>
  /\ UNCHANGED pageVars

\* The parent closes the modal (onClose): the effect runs and does nothing.
Modal_Close ==
  /\ modal.open
  /\ modal' = [modal EXCEPT !.open = FALSE]
  /\ requests' = << >>
  /\ toasts' = << >>
  /\ UNCHANGED pageVars

\* The i-th pending list request is answered ok: the list is replaced, and the
\* first task becomes selected if the calling render had none selected.
Modal_fetchTasksOk(i, data) ==
  /\ i \in 1..Len(modal.fetchTasksCalls)
  /\ LET call == modal.fetchTasksCalls[i]
     IN modal' =
          [ modal EXCEPT
              !.fetchTasksCalls = RemoveAt(@, i),
              !.tasks = data,
              !.selectedTask = IF Len(data) > 0 /\ call.selectedTask = ModalNull
                                 THEN data[1]
                                 ELSE @,
              !.isFetchingTasks = FALSE ]
  /\ requests' = << >>
  /\ toasts' = << >>
  /\ UNCHANGED pageVars

\* Mutant of Modal_fetchTasksFail: the failure empties the list.
Modal_fetchTasksFail_emptying(i) ==
  /\ i \in 1..Len(modal.fetchTasksCalls)
  /\ modal' = [ modal EXCEPT !.fetchTasksCalls = RemoveAt(@, i),
                             !.tasks = << >>,
                             !.isFetchingTasks = FALSE ]
  /\ requests' = << >>
  /\ toasts' = << ToastLoadFailed >>
  /\ UNCHANGED pageVars

\* The i-th pending list request is rejected or answered with a non-ok status.
Modal_fetchTasksFail(i) ==
  /\ i \in 1..Len(modal.fetchTasksCalls)
  /\ modal' = [ modal EXCEPT !.fetchTasksCalls = RemoveAt(@, i),
                             !.isFetchingTasks = FALSE ]
  /\ requests' = << >>
  /\ toasts' = << ToastLoadFailed >>
  /\ UNCHANGED pageVars

\* A click on a task of the modal's list, which is rendered when the modal is
\* open and no fetch is flagged.
Modal_SelectTask(task) ==
  /\ modal.open
  /\ ~modal.isFetchingTasks
  /\ task \in TaskSet(modal.tasks)
  /\ modal' = [ modal EXCEPT !.selectedTask = task,
                             !.currentAction = "null",
                             !.previewContent = NoPreview ]
  /\ requests' = << >>
  /\ toasts' = << >>
  /\ UNCHANGED pageVars

NextModal ==
  \/ Modal_Open
  \/ Modal_Close
  \/ \E i \in 1..Len(modal.fetchTasksCalls), data \in ModalApiLists : Modal_fetchTasksOk(i, data)
  \/ \E i \in 1..Len(modal.fetchTasksCalls) : Modal_fetchTasksFail(i)
  \/ \E task \in TaskSet(modal.tasks) : Modal_SelectTask(task)

(***************************************************************************)
(* Loading the task list, in both components: the page's mount and the     *)
(* answers to its list request, next to the modal's task list.             *)
(***************************************************************************)
NextLoad ==
  \/ Mount
  \/ \E apiData \in ApiLists : fetchTasksOk(apiData)
  \/ fetchTasksFail
  \/ NextModal

SpecLoad == Init /\ [][NextLoad]_vars

(***************************************************************************)
(* The modal's preview: generating it (handleActionClick), editing it,     *)
(* approving it (handleApprove) and cancelling it (handleCancel).          *)
(***************************************************************************)
\* type ActionType
ActionTypes == {"template", "email", "literature", "products"}

ModalToastExecuted == [title |-> "Success", description |-> "Task executed successfully."]
ModalToastExecuteFailed == [title |-> "Error", description |-> "Failed to execute task. Please try again."]

\* The preview region shows the preview and its buttons:
\* selectedTask ? ... isLoading ? spinner : previewContent ? preview : hint
PreviewShown(m) ==
  /\ m.open
  /\ m.selectedTask # ModalNull
  /\ ~m.isLoading
  /\ m.previewContent # NoPreview

\* body of POST /api/tasks/action
ActionRequest(task, action) ==
  [ method |-> "POST", path |-> "/api/tasks/action",
    body |-> [taskId |-> task.id, action |-> action] ]

\* A click on an action button, rendered for a selected task and disabled while
\* isLoading || isExecuting: the handler up to its await.
Modal_handleActionClick(action) ==
  /\ modal.open
  /\ ~(modal.isLoading \/ modal.isExecuting)
  /\ modal.selectedTask # ModalNull
  /\ modal' = [ modal EXCEPT
                  !.currentAction = action,
                  !.previewContent = NoPreview,
                  !.editedContent = "",
                  !.isLoading = TRUE,
                  !.actionCalls = Append(@, [ selectedTask |-> modal.selectedTask,
                                               action |-> action,
                                               previewContent |-> modal.previewContent,
                                               editedContent |-> modal.editedContent ]) ]
  /\ requests' = << ActionRequest(modal.selectedTask, action) >>
  /\ toasts' = << >>
  /\ UNCHANGED pageVars

\* The action request is answered ok: the preview is set, and the edit buffer
\* too if the content is a string; finally.
Modal_actionOk(data) ==
  /\ modal.actionCalls # << >>
  /\ modal' = [ modal EXCEPT
                  !.actionCalls = Tail(@),
                  !.previewContent = data,
                  !.editedContent = IF data.content.kind = "string" THEN data.content.val ELSE @,
                  !.isLoading = FALSE ]
  /\ requests' = << >>
  /\ toasts' = << >>
  /\ UNCHANGED pageVars

\* The action request is rejected or answered with a non-ok status: catch,
\* finally.
Modal_actionFail ==
  /\ modal.actionCalls # << >>
  /\ modal' = [ modal EXCEPT
                  !.actionCalls = Tail(@),
                  !.currentAction = "null",
                  !.isLoading = FALSE ]
  /\ requests' = << >>
  /\ toasts' = << ToastGenerateFailed >>
  /\ UNCHANGED pageVars

\* onChange of the preview's textarea, rendered for a string content.
Modal_TextareaChange(newContent) ==
  /\ PreviewShown(modal)
  /\ modal.previewContent.content.kind = "string"
  /\ modal' = [modal EXCEPT !.editedContent = newContent]
  /\ requests' = << >>
  /\ toasts' = << >>
  /\ UNCHANGED pageVars

\* content: editedContent || previewContent?.content
ApproveContent(m) ==
  IF m.editedContent # "" THEN Str(m.editedContent) ELSE m.previewContent.content

\* body of POST /api/tasks/execute
ApproveRequest(m) ==
  [ method |-> "POST", path |-> "/api/tasks/execute",
    body |-> [ taskId |-> m.selectedTask.id,
               action |-> m.currentAction,
               content |-> ApproveContent(m) ] ]

\* Mutant of Modal_handleApprove: the handler does not test currentAction.
Modal_handleApprove_unguarded ==
  /\ PreviewShown(modal)
  /\ ~modal.isExecuting
  /\ modal' = [ modal EXCEPT
                  !.isExecuting = TRUE,
                  !.approveCalls = Append(@, [selectedTask |-> modal.selectedTask]) ]
  /\ requests' = << ApproveRequest(modal) >>
  /\ toasts' = << >>
  /\ UNCHANGED pageVars

\* A click on Approve & Execute, rendered with the preview and disabled while
\* isExecuting: the handler up to its await.
Modal_handleApprove ==
  /\ PreviewShown(modal)
  /\ ~modal.isExecuting
  /\ IF modal.selectedTask = ModalNull \/ modal.currentAction = "null"
       THEN /\ modal' = modal
            /\ requests' = << >>
       ELSE /\ modal' = [ modal EXCEPT
                            !.isExecuting = TRUE,
                            !.approveCalls = Append(@, [selectedTask |-> modal.selectedTask]) ]
            /\ requests' = << ApproveRequest(modal) >>
  /\ toasts' = << >>
  /\ UNCHANGED pageVars

\* setTasks((prev) => prev.map((task) =>
\*   task.id === selectedTask.id ? { ...task, completed: true } : task))
MarkCompleted(prev, id) ==
  [ i \in 1..Len(prev) |->
      IF prev[i].id = id THEN [prev[i] EXCEPT !.completed = TRUE] ELSE prev[i] ]

\* The execute request is answered ok: the task is marked, the preview reset.
Modal_approveOk ==
  /\ modal.approveCalls # << >>
  /\ modal' = [ modal EXCEPT
                  !.approveCalls = Tail(@),
                  !.tasks = MarkCompleted(@, Head(modal.approveCalls).selectedTask.id),
                  !.currentAction = "null",
                  !.previewContent = NoPreview,
                  !.editedContent = "",
                  !.isExecuting = FALSE ]
  /\ requests' = << >>
  /\ toasts' = << ModalToastExecuted >>
  /\ UNCHANGED pageVars

\* The execute request is rejected or answered with a non-ok status.
Modal_approveFail ==
  /\ modal.approveCalls # << >>
  /\ modal' = [ modal EXCEPT !.approveCalls = Tail(@), !.isExecuting = FALSE ]
  /\ requests' = << >>
  /\ toasts' = << ModalToastExecuteFailed >>
  /\ UNCHANGED pageVars

\* A click on Cancel, rendered with the preview and disabled while isExecuting.
Modal_handleCancel ==
  /\ PreviewShown(modal)
  /\ ~modal.isExecuting
  /\ modal' = [ modal EXCEPT
                  !.currentAction = "null",
                  !.previewContent = NoPreview,
                  !.editedContent = "" ]
  /\ requests' = << >>
  /\ toasts' = << >>
  /\ UNCHANGED pageVars

\* Tasks the backend lists as completed already, next to those it does not.
ModalTaskPoolWide ==
  ModalTaskPool \cup { [task EXCEPT !.completed = TRUE] : task \in ModalTaskPool }

\* Every list of at most MaxTasks of them that lists no id twice.
ModalApiListsWide ==
  { data \in UNION { [1..n -> ModalTaskPoolWide] : n \in 0..MaxTasks } :
      \A i, j \in 1..Len(data) : data[i].id = data[j].id => i = j }

\* The modal, opened once: its task list and its preview.
NextPreview ==
  \/ Modal_Open
  \/ \E i \in 1..Len(modal.fetchTasksCalls), data \in ModalApiListsWide :
       Modal_fetchTasksOk(i, data)
  \/ \E i \in 1..Len(modal.fetchTasksCalls) : Modal_fetchTasksFail(i)
  \/ \E task \in TaskSet(modal.tasks) : Modal_SelectTask(task)
  \/ \E action \in ActionTypes : Modal_handleActionClick(action)
  \/ \E data \in PreviewContents : Modal_actionOk(data)
  \/ Modal_actionFail
  \/ \E newContent \in TypedTexts : Modal_TextareaChange(newContent)
  \/ Modal_handleApprove
  \/ Modal_approveOk
  \/ Modal_approveFail
  \/ Modal_handleCancel

SpecPreview == Init /\ [][NextPreview]_vars

(***************************************************************************)
(* The network operations of both components and their failures: the       *)
(* page's list fetch, generation and batch execution, next to the modal's  *)
(* list fetch and generation.  The modal is opened once, texts are not     *)
(* edited and every generated content is a text.                           *)
(***************************************************************************)
TextContents == { data \in PreviewContents : data.content.kind = "string" }

NextRetry ==
  \/ Mount
  \/ \E apiData \in ApiLists : fetchTasksOk(apiData)
  \/ fetchTasksFail
  \/ \E task \in TaskSet(tasks) : SelectTask(task)
  \/ \E task \in BagToSet(generateCalls), data \in TextContents : generateOk(task, data)
  \/ \E task \in BagToSet(generateCalls) : generateFail(task)
  \/ ApproveClick
  \/ ExecuteAllClick
  \/ executeOk
  \/ executeFail
  \/ Modal_Open
  \/ \E i \in 1..Len(modal.fetchTasksCalls), data \in ModalApiLists : Modal_fetchTasksOk(i, data)
  \/ \E i \in 1..Len(modal.fetchTasksCalls) : Modal_fetchTasksFail(i)
  \/ \E action \in ActionTypes : Modal_handleActionClick(action)
  \/ \E data \in TextContents : Modal_actionOk(data)
  \/ Modal_actionFail

SpecRetry == Init /\ [][NextRetry]_vars

(***************************************************************************)
(* The modal closed and opened again: every opening fetches the list anew, *)
(* between previews generated and approved.  Texts are not edited, no      *)
(* other task is selected and every generated content is a text.           *)
(***************************************************************************)
NextReopen ==
  \/ Modal_Open
  \/ Modal_Close
  \/ \E i \in 1..Len(modal.fetchTasksCalls), data \in ModalApiLists : Modal_fetchTasksOk(i, data)
  \/ \E i \in 1..Len(modal.fetchTasksCalls) : Modal_fetchTasksFail(i)
  \/ \E action \in ActionTypes : Modal_handleActionClick(action)
  \/ \E data \in TextContents : Modal_actionOk(data)
  \/ Modal_handleApprove
  \/ Modal_approveOk
  \/ Modal_approveFail

SpecReopen == Init /\ [][NextReopen]_vars

(***************************************************************************)
(* Properties.                                                             *)
(***************************************************************************)
\* The ids of the records a batch call executes (its approved id set S).
ExecutedIds(call) == { call.tasksToExecute[i] : i \in 1..Len(call.tasksToExecute) }

\* The ids of the approved records of a map.
ApprovedIds(gen) == { k \in MapKeys(gen) : MapGet(gen, k).approved }

\* The batch request the latest step has sent, if it has sent one.
BatchSent ==
  /\ Len(requests) = 1
  /\ requests[1].path = "/api/tasks/execute-batch"

\* C1: a batch request issued by handleExecuteAll holds exactly one payload
\* entry for every record that is approved when the handler is invoked, built
\* from that record, and none for a record that is not approved then.  (Stated
\* of the state in which the request leaves: the handler changes no record.)
C1_PayloadIsTheApprovedRecords ==
  BatchSent =>
    LET call == executeCalls[Len(executeCalls)]
        payload == requests[1].body.tasks
        n == Len(payload)
    IN /\ n = Cardinality(ApprovedIds(generatedTasks))
       /\ Len(call.tasksToExecute) = n
       /\ ExecutedIds(call) = ApprovedIds(generatedTasks)
       /\ \A i \in 1..n :
            LET rec == MapGet(generatedTasks, call.tasksToExecute[i])
            IN /\ rec.approved
               /\ payload[i].content \in {rec.editedContent, rec.content.content}

\* C1 witness: a batch request has left with one entry while the cache holds an
\* approved record and one that is not approved.
C1_Witness ==
  /\ BatchSent
  /\ Len(requests[1].body.tasks) = 1
  /\ Cardinality(MapKeys(generatedTasks)) = 2

\* C2: after a successful execution of the approved id set S, every task whose
\* id is not in S is still in the task list.
C2_UnexecutedTasksStay ==
  [][ executeOk =>
        \A i \in 1..Len(tasks) :
          tasks[i].id \notin ExecutedIds(Head(executeCalls)) => tasks[i] \in TaskSet(tasks')
    ]_vars

\* C3: a successful execution of the approved id set S leaves every record whose
\* task id is not in S in the cache, unchanged.
C3_UnexecutedRecordsStay ==
  [][ executeOk =>
        \A k \in MapKeys(generatedTasks) \ ExecutedIds(Head(executeCalls)) :
          MapHas(generatedTasks', k) /\ MapGet(generatedTasks', k) = MapGet(generatedTasks, k)
    ]_vars

\* C4: after a successful execution of the approved id set S, no id of S is in
\* the task list, none is a key of the cache, and the executed count is |S|.
C4_ExecutedAreGone ==
  [][ executeOk =>
        LET S == ExecutedIds(Head(executeCalls))
        IN /\ TaskIds(tasks') \cap S = {}
           /\ MapKeys(generatedTasks') \cap S = {}
           /\ executedTasksCount' = Cardinality(S)
    ]_vars

\* C4 witness: two approved tasks were executed: the count is 2, the success
\* dialog is open and both are gone from the list of two.
C4_Witness ==
  /\ executedTasksCount = 2
  /\ showSuccessModal
  /\ tasks = << >>
  /\ generatedTasks = EmptyMap

\* C5: when the batch request fails, the task list, the selection, the cache,
\* the executed count and the success dialog are left as they are, and one
\* error toast is raised.
C5_FailedExecuteChangesNothing ==
  [][ executeFail =>
        /\ UNCHANGED << tasks, selectedTask, generatedTasks, executedTasksCount,
                        showSuccessModal >>
        /\ toasts' = << ToastExecuteFailed >>
    ]_vars

\* C5 witness: a batch request has just failed, with tasks in the list, one
\* selected, an approved record in the cache and no success dialog.
C5_Witness ==
  /\ toasts = << ToastExecuteFailed >>
  /\ executeCalls = << >>
  /\ Len(tasks) = 2
  /\ selectedTask # Null
  /\ approvedTasksCount = 1
  /\ Cardinality(MapKeys(generatedTasks)) = 2
  /\ ~showSuccessModal
  /\ executedTasksCount = 0

\* C6: handleExecuteAll invoked when no record is approved sends no request,
\* changes neither the task list nor the cache nor the executing flag, and
\* raises the 'No tasks to execute' toast.
C6_NothingApprovedNothingSent ==
  [][ (approvedTasksCount = 0 /\ handleExecuteAll) =>
        /\ UNCHANGED << executeCalls, tasks, generatedTasks, isExecutingAll >>
        /\ toasts' = << ToastNoTasks >>
    ]_vars

\* C6 witness: the 'No tasks to execute' toast has just been raised while the
\* list holds tasks and the cache holds a record that is not approved.
C6_Witness ==
  /\ toasts = << ToastNoTasks >>
  /\ tasks # << >>
  /\ generatedTasks # EmptyMap
  /\ approvedTasksCount = 0
  /\ executeCalls = << >>

\* C7: in every batch request, the content sent for a record is its edit buffer
\* whenever the record has one, whatever text it holds, and the original body
\* only when it has none.
C7_BufferIsSent ==
  BatchSent =>
    \A i \in 1..Len(requests[1].body.tasks) :
      LET rec == MapGet(generatedTasks, executeCalls[Len(executeCalls)].tasksToExecute[i])
      IN requests[1].body.tasks[i].content =
           IF rec.editedContent # Undefined THEN rec.editedContent
                                            ELSE rec.content.content

\* C8: the selected task is either absent or a task of the task list.
C8_SelectionIsInTheList ==
  selectedTask = Null \/ selectedTask \in TaskSet(tasks)

\* C9: a successful generate response for a task stores, under the task's id, a
\* record with that taskId, the returned content, approved = false, and an edit
\* buffer equal to the body if the body is a text and absent if it is a card list.
C9_GenerateStoresFreshRecord ==
  [][ generateCalls' # generateCalls =>
        \A task \in BagToSet(generateCalls), data \in PreviewContents :
          generateOk(task, data) =>
            /\ MapHas(generatedTasks', task.id)
            /\ LET rec == MapGet(generatedTasks', task.id)
               IN /\ rec.taskId = task.id
                  /\ rec.content = data
                  /\ rec.approved = FALSE
                  /\ data.content.kind = "string" => rec.editedContent = data.content
                  /\ data.content.kind = "array" => rec.editedContent = Undefined
    ]_vars

\* C9 witness: the cache holds a fresh record of a text, its buffer equal to the
\* body, and a fresh record of a card list, without a buffer.
C9_Witness ==
  /\ \E k \in MapKeys(generatedTasks) :
       LET rec == MapGet(generatedTasks, k)
       IN /\ rec.content.content.kind = "string"
          /\ rec.editedContent = rec.content.content
          /\ ~rec.approved
  /\ \E k \in MapKeys(generatedTasks) :
       LET rec == MapGet(generatedTasks, k)
       IN /\ rec.content.content.kind = "array"
          /\ rec.editedContent = Undefined
          /\ ~rec.approved

\* C10: when a generate request fails, no record is created, the task list, the
\* selection and every record are left as they are, and one error toast is
\* raised.
C10_FailedGenerateChangesNothing ==
  [][ generateCalls' # generateCalls =>
        \A task \in BagToSet(generateCalls) :
          generateFail(task) =>
            /\ UNCHANGED << generatedTasks, tasks, selectedTask >>
            /\ ~MapHas(generatedTasks, task.id) => ~MapHas(generatedTasks', task.id)
            /\ toasts' = << ToastGenerateFailed >>
    ]_vars

\* C10 witness: a generate request has just failed for the selected task, which
\* has no record, while another task has one.
C10_Witness ==
  /\ toasts = << ToastGenerateFailed >>
  /\ selectedTask # Null
  /\ ~MapHas(generatedTasks, selectedTask.id)
  /\ generatedTasks # EmptyMap
  /\ generateCalls = EmptyBag

\* C11: an edit of an existing record sets the record's edit buffer to the typed
\* text and leaves its original content (type label and body), its approval and
\* every other record as they are; the content of a record that stays in the
\* cache changes in no step but the arrival of a generate response.
C11_EditChangesOnlyTheBuffer ==
  [][ /\ \A newContent \in TypedTexts :
           TextareaChange(newContent) =>
             LET id == selectedTask.id
                 old == MapGet(generatedTasks, id)
                 new == MapGet(generatedTasks', id)
             IN /\ MapKeys(generatedTasks') = MapKeys(generatedTasks)
                /\ new.editedContent = Str(newContent)
                /\ new.content = old.content
                /\ new.approved = old.approved
                /\ new.taskId = old.taskId
                /\ \A k \in MapKeys(generatedTasks) \ {id} :
                     MapGet(generatedTasks', k) = MapGet(generatedTasks, k)
      /\ generateCalls' = generateCalls =>
           \A k \in MapKeys(generatedTasks) \cap MapKeys(generatedTasks') :
             MapGet(generatedTasks', k).content = MapGet(generatedTasks, k).content
    ]_vars

\* C11 witness: a record whose body is the delivered text while its buffer
\* holds the text typed over it, next to a record whose buffer was emptied.
C11_Witness ==
  /\ \E k \in MapKeys(generatedTasks) :
       /\ MapGet(generatedTasks, k).content.content = Str("draft")
       /\ MapGet(generatedTasks, k).editedContent = Str("edited")
  /\ \E k \in MapKeys(generatedTasks) :
       /\ MapGet(generatedTasks, k).content.content = Str("draft")
       /\ MapGet(generatedTasks, k).editedContent = Str("")

\* C12: handleApprove on the selected task's record flips its approval and
\* leaves its content, its edit buffer and every other record as they are; the
\* button stays rendered, and the handler invoked once more, with nothing in
\* between, gives back the cache as it was before the first invocation.
C12_ApproveTwiceIsIdentity ==
  [][ ApproveClick =>
        LET id == selectedTask.id
            old == MapGet(generatedTasks, id)
            new == MapGet(generatedTasks', id)
        IN /\ MapKeys(generatedTasks') = MapKeys(generatedTasks)
           /\ new.approved = ~old.approved
           /\ new.content = old.content
           /\ new.editedContent = old.editedContent
           /\ \A k \in MapKeys(generatedTasks) \ {id} :
                MapGet(generatedTasks', k) = MapGet(generatedTasks, k)
           /\ selectedTask' = selectedTask
           /\ ApprovalToggled(generatedTasks', id) = generatedTasks
    ]_vars

\* C12 witness: the approval of the selected task's record, whose buffer holds a
\* typed text, has just been cancelled: it was approved and is not any more.
C12_Witness ==
  /\ toasts = << ToastApprovalCancelled >>
  /\ HasCurrentGenerated
  /\ ~MapGet(generatedTasks, selectedTask.id).approved
  /\ MapGet(generatedTasks, selectedTask.id).editedContent = Str("edited")

\* C13: handleContentEdit and handleApprove invoked for a task that has no
\* record leave the cache as it is: no record is created, none is modified.
C13_NoRecordNoChange ==
  [][ (ApproveWithoutRecord \/ ContentEditWithoutRecord) =>
        generatedTasks' = generatedTasks
    ]_vars

\* C13 witness: the selected task has no record and no request for one is
\* pending, while the cache holds an approved record of another task; the
\* latest step has raised no toast and sent no request.
C13_Witness ==
  /\ selectedTask # Null
  /\ ~MapHas(generatedTasks, selectedTask.id)
  /\ generateCalls = EmptyBag
  /\ approvedTasksCount = 1
  /\ toasts = << >>
  /\ requests = << >>

\* C14: a click on a task that has no record sends exactly one generate request
\* for that task, and a click on a task that has a record sends none and leaves
\* the cache as it is.  (Stated for a task without a request in flight; a task
\* whose request is still in flight is left out.)
C14_SelectGeneratesOnce ==
  [][ \A task \in TaskSet(tasks) :
        SelectTask(task) =>
          IF MapHas(generatedTasks, task.id)
            THEN /\ requests' = << >>
                 /\ generateCalls' = generateCalls
                 /\ generatedTasks' = generatedTasks
            ELSE ~BagIn(task, generateCalls) =>
                   /\ generateCalls' = generateCalls (+) SetToBag({task})
                   /\ Len(requests') = 1
                   /\ requests'[1].path = "/api/tasks/generate"
                   /\ requests'[1].body.taskDetails = task
    ]_vars

\* C18: for every task id, a record exists for the id if and only if generation
\* has been requested for the id.
C18_RecordIffRequested ==
  \A id \in KnownTaskIds : MapHas(generatedTasks, id) <=> id \in generateRequested

\* C18, amended: a record exists for an id only if generation has been requested
\* for the id.
C18_RecordOnlyIfRequested ==
  \A id \in MapKeys(generatedTasks) : id \in generateRequested

\* C18 witness: generation has been requested for two tasks; the one has its
\* record, the request for the other has just failed and it has none.
C18_Witness ==
  /\ Cardinality(generateRequested) = 2
  /\ Cardinality(MapKeys(generatedTasks)) = 1
  /\ generateCalls = EmptyBag
  /\ toasts = << ToastGenerateFailed >>

\* C19: the cache holds at most one record per task id: every record is stored
\* under its own taskId, and no two of the records the cache lists carry the
\* same taskId.
C19_OneRecordPerId ==
  /\ \A k \in MapKeys(generatedTasks) : MapGet(generatedTasks, k).taskId = k
  /\ LET values == MapValues(generatedTasks)
     IN /\ Len(values) = Cardinality(MapKeys(generatedTasks))
        /\ \A i, j \in 1..Len(values) : values[i].taskId = values[j].taskId => i = j

\* C19 witness: the cache holds the records of two tasks, and the record of the
\* task that is not selected is approved.
C19_Witness ==
  /\ Cardinality(MapKeys(generatedTasks)) = 2
  /\ selectedTask # Null
  /\ generateCalls = EmptyBag
  /\ \E k \in MapKeys(generatedTasks) :
       k # selectedTask.id /\ MapGet(generatedTasks, k).approved

\* C15: a list request answered ok replaces the stored list by the fetched one;
\* a task that is selected stays selected, and with no task selected the first
\* task of a fetched list that is not empty becomes selected, and none of an
\* empty one.  Stated of the page and of the modal.
C15_LoadReplacesAndSelectsFirst ==
  [][ /\ \A apiData \in ApiLists :
           fetchTasksOk(apiData) =>
             /\ Len(tasks') = Len(apiData)
             /\ \A i \in 1..Len(apiData) : tasks'[i].title = apiData[i].title
             /\ selectedTask' =
                  IF selectedTask # Null THEN selectedTask
                  ELSE IF Len(apiData) > 0 THEN tasks'[1] ELSE Null
      /\ \A i \in 1..Len(modal.fetchTasksCalls), data \in ModalApiLists :
           Modal_fetchTasksOk(i, data) =>
             /\ modal'.tasks = data
             /\ modal'.selectedTask =
                  IF modal.selectedTask # ModalNull THEN modal.selectedTask
                  ELSE IF Len(data) > 0 THEN data[1] ELSE ModalNull
    ]_vars

\* C16: a list request that fails leaves the stored list and the selection as
\* they are, raises one error toast and leaves the fetching flag reset.  Stated
\* of the page and of the modal.
C16_FailedLoadChangesNothing ==
  [][ /\ fetchTasksFail =>
           /\ UNCHANGED << tasks, selectedTask >>
           /\ toasts' = << ToastLoadFailed >>
           /\ ~isFetchingTasks'
      /\ \A i \in 1..Len(modal.fetchTasksCalls) :
           Modal_fetchTasksFail(i) =>
             /\ modal'.tasks = modal.tasks
             /\ modal'.selectedTask = modal.selectedTask
             /\ toasts' = << ToastLoadFailed >>
             /\ ~modal'.isFetchingTasks
    ]_vars

\* C16 witness: a list request of the modal has just failed while its list holds
\* two tasks, the second of them selected; the page's request is answered too.
C16_Witness ==
  /\ toasts = << ToastLoadFailed >>
  /\ Len(modal.tasks) = 2
  /\ modal.selectedTask = modal.tasks[2]
  /\ modal.fetchTasksCalls = << >>
  /\ ~modal.isFetchingTasks
  /\ mounted
  /\ fetchTasksCalls = << >>

\* The ids expected of the first, second, ... task of a fetched list.
ExpectedIds == << "task-1", "task-2", "task-3", "task-4" >>

\* C17: for a backend list of n raw tasks, the stored list has n tasks, the i-th
\* with id 'task-i' and the type, title and prompt of the i-th raw task; the ids
\* of the stored list are pairwise different.
C17_StoredListMirrorsRawList ==
  [][ \A apiData \in ApiListsWide :
        fetchTasksOk(apiData) =>
          /\ Len(tasks') = Len(apiData)
          /\ \A i \in 1..Len(apiData) :
               /\ tasks'[i].id = ExpectedIds[i]
               /\ tasks'[i].type = apiData[i].type
               /\ tasks'[i].title = apiData[i].title
               /\ tasks'[i].prompt = apiData[i].prompt
          /\ \A i, j \in 1..Len(tasks') : tasks'[i].id = tasks'[j].id => i = j
    ]_vars

\* C17 witness: the stored list holds two tasks of different kinds, in the order
\* of the raw list, and the second is selected.
C17_Witness ==
  /\ Len(tasks) = 2
  /\ tasks[1].type = "schedule_appointment" /\ tasks[1].title = "Book follow-up"
  /\ tasks[2].type = "send_email" /\ tasks[2].title = "Email labs"
  /\ tasks[1].id = "task-1" /\ tasks[2].id = "task-2"
  /\ selectedTask = tasks[2]

\* C20: every failing network operation (task list, patient, generation, batch
\* execution) raises a toast in the step in which it fails, and leaves the flag
\* that disables the controls of its operation reset.
C20_FailuresNotifyAndDoNotBlock ==
  [][ /\ fetchTasksFail => (Len(toasts') = 1 /\ ~isFetchingTasks')
      /\ fetchPatientFail => Len(toasts') = 1
      /\ (\E task \in BagToSet(generateCalls) : generateFail(task)) =>
           (Len(toasts') = 1 /\ ~isGenerating')
      /\ executeFail => (Len(toasts') = 1 /\ ~isExecutingAll')
    ]_vars

\* C24: at any time at most one generate request is in flight per task id.
C24_OneGenerateInFlightPerTask ==
  \A task \in BagToSet(generateCalls) : CopiesIn(task, generateCalls) <= 1

\* C25: once a record exists for a task, its approval and its edit buffer change
\* only through handleApprove and handleContentEdit for that task, or by its
\* removal in a successful execution: no generate response replaces it.
C25_RecordChangesOnlyByItsUser ==
  [][ \A k \in MapKeys(generatedTasks) \cap MapKeys(generatedTasks') :
        MapGet(generatedTasks', k) # MapGet(generatedTasks, k) =>
          /\ selectedTask # Null
          /\ k = selectedTask.id
          /\ ApproveClick \/ \E newContent \in TypedTexts : TextareaChange(newContent)
    ]_vars

\* C26: generation progress is tracked per task: the task shown in the detail
\* pane is reported as generating exactly while a generate request for it is in
\* flight, and the indicator is not cleared while any request is in flight.
C26_GeneratingWhileInFlight ==
  /\ generateCalls # EmptyBag => isGenerating
  /\ selectedTask # Null => (isGenerating <=> BagIn(selectedTask, generateCalls))

\* C27: a failed generation is retryable by re-clicking: once the generate
\* request of the selected task has failed and none is in flight for it,
\* clicking that task in the list again issues a new generate request for it.
C27_ReclickRetriesFailedGenerate ==
  [][ \A task \in TaskSet(tasks) :
        ( /\ SelectTask(task)
          /\ task = selectedTask
          /\ task.id \in generateRequested
          /\ ~MapHas(generatedTasks, task.id)
          /\ ~BagIn(task, generateCalls) )
        => \E i \in 1..Len(requests') :
             /\ requests'[i].path = "/api/tasks/generate"
             /\ requests'[i].body.taskDetails = task
    ]_vars

\* C28: a generate response for a task that is no longer the selected one is
\* still applied: it stores the record under that task's id, and changes neither
\* the selection nor the record of the selected task nor any other record.
C28_StaleResponseIsApplied ==
  [][ \A task \in TaskSet(tasks), data \in PreviewContents :
        (generateOk(task, data) /\ selectedTask # Null /\ task # selectedTask) =>
          /\ MapHas(generatedTasks', task.id)
          /\ MapGet(generatedTasks', task.id) = NewGeneratedTask(task, data)
          /\ selectedTask' = selectedTask
          /\ MapKeys(generatedTasks') = MapKeys(generatedTasks) \cup {task.id}
          /\ \A k \in MapKeys(generatedTasks) \ {task.id} :
               MapGet(generatedTasks', k) = MapGet(generatedTasks, k)
    ]_vars

\* A record of a task other than the selected one has just been stored by its
\* response, next to the record of the selected task.
C28_Witness ==
  /\ selectedTask # Null
  /\ requests = << >> /\ toasts = << >>
  /\ \E k \in MapKeys(generatedTasks) :
       /\ k # selectedTask.id
       /\ MapHas(generatedTasks, selectedTask.id)
       /\ MapGet(generatedTasks, selectedTask.id).approved
       /\ ~MapGet(generatedTasks, k).approved
       /\ generateCalls = EmptyBag

\* C29: each click on Execute All with a non-empty approved set issues exactly
\* one batch request; at most one batch request is in flight at any time; and
\* isExecutingAll is set exactly from the start of the request until its
\* success or failure has been handled.
C29_OneBatchInFlight ==
  [][ /\ ExecuteAllClick =>
           /\ BatchSent'
           /\ executeCalls = << >>
           /\ Len(executeCalls') = 1
      /\ Len(executeCalls') <= 1
      /\ isExecutingAll' <=> executeCalls' # << >>
      /\ (executeOk \/ executeFail) => ~isExecutingAll' /\ executeCalls' = << >>
    ]_vars

\* A batch request for two approved records has just been sent and is in
\* flight, with the flag set and the button disabled.
C29_Witness ==
  /\ BatchSent
  /\ isExecutingAll
  /\ Len(executeCalls) = 1
  /\ ExecuteAllDisabled
  /\ approvedTasksCount = 2

\* C30: a record stored by a generate response while a batch request is in
\* flight, for a task that is not part of the batch, survives the success of
\* the batch: the task stays in the list and keeps its record.
C30_LateRecordSurvivesExecute ==
  [][ executeOk =>
        \A k \in MapKeys(generatedTasks) \ Head(executeCalls).generatedTasks :
          k \notin ExecutedIds(Head(executeCalls)) =>
            /\ k \in TaskIds(tasks) => k \in TaskIds(tasks')
            /\ MapHas(generatedTasks', k)
            /\ MapGet(generatedTasks', k) = MapGet(generatedTasks, k)
    ]_vars

\* C21: when the modal's generate request (handleActionClick) fails, the
\* preview content and the edit buffer are again what they were when the
\* handler was invoked.
C21_FailedActionRollsBack ==
  [][ Modal_actionFail =>
        /\ modal'.previewContent = Head(modal.actionCalls).previewContent
        /\ modal'.editedContent = Head(modal.actionCalls).editedContent
    ]_vars

\* The latest step has sent an execute request from the modal.
ModalExecuteSent ==
  \E i \in 1..Len(requests) : requests[i].path = "/api/tasks/execute"

\* The ids of the tasks of a list that are marked completed.
CompletedIds(ts) == { ts[i].id : i \in { j \in 1..Len(ts) : ts[j].completed } }

\* C23: in the modal nothing is sent or marked done before Approve & Execute:
\* an execute request is issued only by handleApprove, invoked with a selected
\* task and a current action, for that task and that action; a task is marked
\* completed only by the success of that request, and it is the task of the
\* request (a fetched list shows the flags the backend sent and no other);
\* handleCancel leaves the task list unchanged and sends nothing.
C23_OnlyApproveExecutes ==
  [][ /\ ModalExecuteSent' =>
           /\ Modal_handleApprove
           /\ modal.selectedTask # ModalNull
           /\ modal.currentAction # "null"
           /\ requests' = << ApproveRequest(modal) >>
      /\ ( /\ modal'.fetchTasksCalls = modal.fetchTasksCalls
           /\ ~(CompletedIds(modal'.tasks) \subseteq CompletedIds(modal.tasks)) ) =>
           /\ Modal_approveOk
           /\ CompletedIds(modal'.tasks) \ CompletedIds(modal.tasks)
                = {Head(modal.approveCalls).selectedTask.id}
      /\ modal'.fetchTasksCalls # modal.fetchTasksCalls =>
           \/ modal'.tasks = modal.tasks
           \/ modal'.tasks \in ModalApiListsWide
      /\ Modal_handleCancel => modal'.tasks = modal.tasks /\ requests' = << >>
      /\ Len(modal'.approveCalls) > Len(modal.approveCalls) => ModalExecuteSent'
    ]_vars

\* A task of the modal's list has just been marked completed by the success of
\* its execute request, and the preview has been reset; the task is still the
\* selected one.
C23_Witness ==
  /\ toasts = << ModalToastExecuted >>
  /\ CompletedIds(modal.tasks) # {}
  /\ modal.selectedTask # ModalNull
  /\ modal.selectedTask.id \in CompletedIds(modal.tasks)
  /\ modal.previewContent = NoPreview

\* A step of one of the user's actions that start a network operation: opening
\* a view, selecting a task, clicking an action or the execute button.
UserStartsOperation ==
  \/ Mount
  \/ \E task \in TaskSet(tasks) : SelectTask(task)
  \/ ExecuteAllClick
  \/ Modal_Open
  \/ \E action \in ActionTypes : Modal_handleActionClick(action)

\* The number of calls awaiting their response, in both components.
PendingCalls ==
  Len(fetchTasksCalls) + BagCardinality(generateCalls) + Len(executeCalls)
    + Len(modal.fetchTasksCalls) + Len(modal.actionCalls)

\* C22: no network operation is retried automatically.  A failing list fetch,
\* generate request or batch execution sends no request and leaves no call
\* pending in its place; and a step sends a request or adds a pending call only
\* if it is one of the user's actions, or the successful answer to the page's
\* list request, which requests generation for the task it selects, at a moment
\* when no generate request has been made yet, let alone failed.
C22_NoAutomaticRetry ==
  [][ /\ ( \/ fetchTasksFail
           \/ \E task \in BagToSet(generateCalls) : generateFail(task)
           \/ executeFail
           \/ \E i \in 1..Len(modal.fetchTasksCalls) : Modal_fetchTasksFail(i)
           \/ Modal_actionFail ) =>
             /\ requests' = << >>
             /\ PendingCalls' = PendingCalls - 1
      /\ (requests' # << >> \/ PendingCalls' > PendingCalls) =>
           \/ UserStartsOperation
           \/ /\ \E apiData \in ApiLists : fetchTasksOk(apiData)
              /\ generateRequested = {}
              /\ Len(requests') = 1
              /\ requests'[1].path = "/api/tasks/generate"
    ]_vars

\* A generate request has just failed: nothing is sent and nothing is pending
\* in either component; the page's selected task has been requested and has no
\* record, and the modal shows a task with no action under way.
C22_Witness ==
  /\ toasts = << ToastGenerateFailed >>
  /\ requests = << >>
  /\ PendingCalls = 0
  /\ modal.open /\ modal.selectedTask # ModalNull /\ modal.currentAction = "null"
  /\ ~modal.isLoading
  /\ selectedTask # Null
  /\ selectedTask.id \in generateRequested
  /\ ~MapHas(generatedTasks, selectedTask.id)
  /\ ~isGenerating

\* C31: every key of the cache is the id of a task of the list: no record
\* exists for a task that was executed and removed, even when generate
\* responses arrive after an execution.
C31_RecordsAreOfListedTasks ==
  MapKeys(generatedTasks) \subseteq TaskIds(tasks)

\* C34: an edit changes only the edit buffer of the selected task's record: an
\* approved record stays approved and every other record is unchanged; and
\* the content a batch request carries for a record with a buffer is that
\* buffer as it was last edited, edits made after the approval included.
C34_EditedBufferIsExecuted ==
  [][ /\ \A newContent \in TypedTexts :
           TextareaChange(newContent) =>
             /\ MapGet(generatedTasks', selectedTask.id).approved
                  = MapGet(generatedTasks, selectedTask.id).approved
             /\ MapGet(generatedTasks', selectedTask.id).editedContent = Str(newContent)
             /\ \A k \in MapKeys(generatedTasks) \ {selectedTask.id} :
                  MapGet(generatedTasks', k) = MapGet(generatedTasks, k)
      /\ ExecuteAllClick =>
           LET sent == Head(executeCalls').tasksToExecute
           IN \A i \in 1..Len(sent) :
                LET rec == MapGet(generatedTasks, sent[i])
                IN rec.editedContent # Undefined =>
                     requests'[1].body.tasks[i].content = rec.editedContent
    ]_vars

C32_PreviewIsOfSelectedTask ==
  [][ /\ \A data \in PreviewContents :
           (Modal_actionOk(data) /\ modal'.previewContent # NoPreview) =>
             Head(modal.actionCalls).selectedTask.id = modal.selectedTask.id
      /\ modal'.selectedTask.id # modal.selectedTask.id =>
           modal'.previewContent = NoPreview
    ]_vars

\* C33: in the modal a task whose completed flag is set is never executed
\* again: no execute request is sent for a task that the list shows as
\* completed.
C33_CompletedIsNotExecutedAgain ==
  [][ ModalExecuteSent' =>
        \A i \in 1..Len(requests') :
          requests'[i].body.taskId \notin CompletedIds(modal.tasks)
    ]_vars

\* C36: in the modal a task's completed flag, once set by a successful
\* handleApprove, stays set while the task is in the list, also after the modal
\* is closed and opened again.
C36_CompletedStaysSet ==
  [][ \A i \in 1..Len(modal.tasks), j \in 1..Len(modal'.tasks) :
        (modal.tasks[i].id = modal'.tasks[j].id /\ modal.tasks[i].completed) =>
          modal'.tasks[j].completed
    ]_vars

====
